---- MODULE Spec2Model ----
(***************************************************************************)
(* The Jungeon: session and world coordination core of the browser MUD.    *)
(*                                                                         *)
(* The repository ships the browser client (client/app.js and its          *)
(* modules), the README, the communication plan and the original design    *)
(* prompt.  The Python server the client talks to is not part of the       *)
(* shipped sources, so the server side (WorldState, CharacterRegistry,     *)
(* PresenceDirectory, CommandPipeline, MessagingRouter) is modelled from   *)
(* its written description; the documents in the source tree are cited     *)
(* wherever they fix the behaviour.                                        *)
(***************************************************************************)
EXTENDS Integers, Sequences, FiniteSets, TLC

VARIABLES
    registry,    \* CharacterRegistry: character ids bound to a session
    sessions,    \* number of live PlayerSessions per character id
    presence,    \* PresenceDirectory: ids with a registered delivery channel
    loc,         \* current room of every character (character save)
    inv,         \* inventory coin count of every character
    coins,       \* coin count of every room
    occupants,   \* per room index of the characters present in it
    lastSender,  \* last-message-sender id of every session, or None
    out,         \* messages delivered to each character by the last step
    last,        \* the operation executed last and its result
    pending,     \* login requests in flight per character id
    recent,      \* sender of the latest tell/yell delivered to each session
    inbox,       \* lines received from each connection, not yet handled
    channel,     \* messages buffered for delivery on each connection
    saving,      \* a snapshot save is in progress
    client,      \* the GameClient of one browser tab and its page
    rnames,      \* name resolution: the online display names
    rtoken,      \* name resolution: the target token
    rresult      \* name resolution: the result

vars == <<registry, sessions, presence, loc, inv, coins, occupants,
          lastSender, out, last, pending, recent, inbox, channel, saving,
          client,
          rnames, rtoken, rresult>>

world == <<registry, sessions, presence, loc, inv, coins, occupants, lastSender>>

resolveVars == <<rnames, rtoken, rresult>>

queueVars == <<inbox, channel, saving>>

None == "none"

\* the sender of the latest tell/yell of a session that has ended
Stale == "stale"

-----------------------------------------------------------------------------
(* WorldDefinition: rooms, exits, initial coins, character templates.      *)

Chars == {"bob", "boris", "cara"}

Rooms == {"r1", "r2", "r3"}

\* direction -> room id, per room
Exits ==
    [r \in Rooms |->
        CASE r = "r1" -> [east |-> "r2"]
          [] r = "r2" -> [west |-> "r1", east |-> "r3"]
          [] r = "r3" -> [west |-> "r2"]]

\* initial coins per room: two world definitions
InitialCoins ==
    {[r \in Rooms |-> CASE r = "r1" -> 5 [] r = "r2" -> 2 [] r = "r3" -> 0],
     [r \in Rooms |-> CASE r = "r1" -> 0 [] r = "r2" -> 0 [] r = "r3" -> 3]}

StartRoom == [c \in Chars |-> CASE c = "bob" -> "r1" [] c = "boris" -> "r1" [] c = "cara" -> "r2"]

wNorth == <<"n","o","r","t","h">>
wSouth == <<"s","o","u","t","h">>
wEast == <<"e","a","s","t">>
wWest == <<"w","e","s","t">>

\* movement words and their aliases n/s/e/w
DirectionOf(word) ==
    CASE word \in {wNorth, <<"n">>} -> "north"
      [] word \in {wSouth, <<"s">>} -> "south"
      [] word \in {wEast, <<"e">>} -> "east"
      [] word \in {wWest, <<"w">>} -> "west"
      [] OTHER -> None

-----------------------------------------------------------------------------
(* Text: words are sequences of characters so that case folding and prefix *)
(* matching are computed, not assumed.                                     *)

ToLower ==
    [A |-> "a", B |-> "b", C |-> "c", D |-> "d", E |-> "e", H |-> "h",
     I |-> "i", L |-> "l", O |-> "o", R |-> "r", S |-> "s", T |-> "t",
     V |-> "v", Y |-> "y"]

ToUpper ==
    [a |-> "A", b |-> "B", c |-> "C", d |-> "D", e |-> "E", h |-> "H",
     i |-> "I", l |-> "L", o |-> "O", r |-> "R", s |-> "S", t |-> "T",
     v |-> "V", y |-> "Y"]

LowerChar(ch) == IF ch \in DOMAIN ToLower THEN ToLower[ch] ELSE ch

UpperChar(ch) == IF ch \in DOMAIN ToUpper THEN ToUpper[ch] ELSE ch

Lower(w) == [i \in 1..Len(w) |-> LowerChar(w[i])]

Upper(w) == [i \in 1..Len(w) |-> UpperChar(w[i])]

\* s.startswith(p)
StartsWith(s, p) == Len(p) <= Len(s) /\ SubSeq(s, 1, Len(p)) = p

\* the words of a display name joined by single spaces
RECURSIVE Join(_)
Join(words) ==
    IF Len(words) = 0 THEN <<>>
    ELSE IF Len(words) = 1 THEN words[1]
    ELSE words[1] \o <<" ">> \o Join(Tail(words))

DisplayName ==
    [c \in Chars |->
        CASE c = "bob" -> << <<"B","o","b">>, <<"t","h","e">>, <<"B","r","a","v","e">> >>
          [] c = "boris" -> << <<"B","o","r","i","s">>, <<"t","h","e">>, <<"B","o","l","d">> >>
          [] c = "cara" -> << <<"C","a","r","a">>, <<"t","h","e">>, <<"C","l","e","v","e","r">> >>]

-----------------------------------------------------------------------------
(* Name resolution (WorldEngine.resolve_character_name).                   *)
(* names is the set of online display names, token one word of the line.   *)

wAll == <<"a","l","l">>

FirstWord(name) == name[1]

ExactMatches(token, names) == {n \in names : Lower(Join(n)) = Lower(token)}

\* a prefix match that compares the letters as typed
PrefixMatchesAsTyped(token, names) ==
    {n \in names : StartsWith(FirstWord(n), token)}

PrefixMatches(token, names) ==
    {n \in names : StartsWith(Lower(FirstWord(n)), Lower(token))}

Hit(n) == [kind |-> "hit", name |-> n, candidates |-> {n}]

resolveCharacterName(token, names) ==
    LET exact == ExactMatches(token, names)
        prefix == PrefixMatches(token, names)
    IN IF Lower(token) = wAll THEN [kind |-> "all", name |-> <<>>, candidates |-> names]
       ELSE IF exact # {} THEN Hit(CHOOSE n \in exact : TRUE)
       ELSE IF prefix = {} THEN [kind |-> "NotFound", name |-> <<>>, candidates |-> {}]
       ELSE IF Cardinality(prefix) = 1 THEN Hit(CHOOSE n \in prefix : TRUE)
       ELSE [kind |-> "Ambiguous", name |-> <<>>, candidates |-> prefix]

OnlineNames == {DisplayName[c] : c \in presence}

CharOfName(n) == CHOOSE c \in Chars : DisplayName[c] = n

-----------------------------------------------------------------------------
(* PresenceDirectory: delivery.  An outbox maps every character to the     *)
(* sequence of messages delivered to it by the step.                       *)

NoOut == [c \in Chars |-> <<>>]

\* best effort: dropped when the target is not registered
send(o, c, m) == IF c \in presence THEN [o EXCEPT ![c] = Append(@, m)] ELSE o

\* a fan-out that visits every channel twice
sendToAllTwice(o, m, except) ==
    [c \in Chars |-> IF c \in presence \ except THEN Append(Append(o[c], m), m) ELSE o[c]]

sendToAll(o, m, except) ==
    [c \in Chars |-> IF c \in presence \ except THEN Append(o[c], m) ELSE o[c]]

\* a room broadcast that does not leave out the character it is about
sendToRoomAll(o, occ, r, m, excludeCharId) ==
    [c \in Chars |->
        IF c \in occ[r] /\ c \in presence
        THEN Append(o[c], m) ELSE o[c]]

sendToRoom(o, occ, r, m, excludeCharId) ==
    [c \in Chars |->
        IF c \in (occ[r] \ {excludeCharId}) /\ c \in presence
        THEN Append(o[c], m) ELSE o[c]]

listOnline == presence

-----------------------------------------------------------------------------
(* Narration payloads: {type: roomState|event|inventory|error, data}.      *)

EventMsg(kind, who, text) == [type |-> "event", kind |-> kind, who |-> who, text |-> text]

InventoryMsg(n) == [type |-> "inventory", coins |-> n]

ErrorMsg(err, candidates) == [type |-> "error", error |-> err, candidates |-> candidates]

\* a description that lists the viewer among the others present
describeRoomWithViewer(occ, cns, roomId, viewerCharId) ==
    [type |-> "roomState", room |-> roomId, coins |-> cns[roomId],
     exits |-> DOMAIN Exits[roomId], others |-> occ[roomId]]

describeRoom(occ, cns, roomId, viewerCharId) ==
    [type |-> "roomState", room |-> roomId, coins |-> cns[roomId],
     exits |-> DOMAIN Exits[roomId], others |-> occ[roomId] \ {viewerCharId}]

-----------------------------------------------------------------------------
(* WorldState operations.  Every handler yields the effect of one command: *)
(* the new values of the mutable stores, the messages and the result.      *)

Effect(l, i, cn, occ, ls, o, res) ==
    [loc |-> l, inv |-> i, coins |-> cn, occupants |-> occ, lastSender |-> ls,
     out |-> o, res |-> res]

\* an effect that leaves the world alone
NoEffect(o, res) == Effect(loc, inv, coins, occupants, lastSender, o, res)

\* an error that is reported to everybody online
FailToAll(c, err) == NoEffect(sendToAll(NoOut, ErrorMsg(err, {}), {}), err)

Fail(c, err) == NoEffect(send(NoOut, c, ErrorMsg(err, {})), err)

\* a move that is observed half applied: the mover has left the old room
\* and is not yet in the new one
moveCharacterHalf(c, direction) ==
    IF direction \notin DOMAIN Exits[loc[c]] THEN Fail(c, "NoSuchExit")
    ELSE LET from == loc[c]
             to == Exits[loc[c]][direction]
             occ == [occupants EXCEPT ![from] = @ \ {c}]
             o1 == send(NoOut, c, describeRoom(occ, coins, to, c))
             o2 == sendToRoom(o1, occ, to, EventMsg("entered", c, <<>>), c)
             o3 == sendToRoom(o2, occ, from, EventMsg("left", c, <<>>), c)
         IN Effect([loc EXCEPT ![c] = to], inv, coins, occ, lastSender, o3, "moved")

moveCharacter(c, direction) ==
    IF direction \notin DOMAIN Exits[loc[c]] THEN Fail(c, "NoSuchExit")
    ELSE LET from == loc[c]
             to == Exits[loc[c]][direction]
             occ == [occupants EXCEPT ![from] = @ \ {c}, ![to] = @ \cup {c}]
             o1 == send(NoOut, c, describeRoom(occ, coins, to, c))
             o2 == sendToRoom(o1, occ, to, EventMsg("entered", c, <<>>), c)
             o3 == sendToRoom(o2, occ, from, EventMsg("left", c, <<>>), c)
         IN Effect([loc EXCEPT ![c] = to], inv, coins, occ, lastSender, o3, "moved")

look(c) == NoEffect(send(NoOut, c, describeRoom(occupants, coins, loc[c], c)), "look")

\* collect that copies the coins and leaves them in the room
collectCoinsCopies(c) ==
    LET n == coins[loc[c]]
    IN IF n = 0
       THEN NoEffect(send(NoOut, c, EventMsg("nothing to collect", c, <<>>)), "nothing")
       ELSE Effect(loc, [inv EXCEPT ![c] = @ + n], coins, occupants, lastSender,
                   send(send(NoOut, c, EventMsg("collected", c, <<>>)), c,
                        InventoryMsg(inv[c] + n)),
                   "collected")

\* collect that overwrites the inventory instead of adding to it
collectCoinsOverwrites(c) ==
    LET n == coins[loc[c]]
    IN IF n = 0
       THEN NoEffect(send(NoOut, c, EventMsg("nothing to collect", c, <<>>)), "nothing")
       ELSE Effect(loc, [inv EXCEPT ![c] = n], [coins EXCEPT ![loc[c]] = 0],
                   occupants, lastSender,
                   send(send(NoOut, c, EventMsg("collected", c, <<>>)), c, InventoryMsg(n)),
                   "collected")

collectCoins(c) ==
    LET n == coins[loc[c]]
    IN IF n = 0
       THEN NoEffect(send(NoOut, c, EventMsg("nothing to collect", c, <<>>)), "nothing")
       ELSE Effect(loc, [inv EXCEPT ![c] = @ + n], [coins EXCEPT ![loc[c]] = 0],
                   occupants, lastSender,
                   send(send(NoOut, c, EventMsg("collected", c, <<>>)), c,
                        InventoryMsg(inv[c] + n)),
                   "collected")

\* a drop that replaces the coins lying in the room instead of adding to them
dropCoinsOverwrites(c) ==
    LET m == inv[c]
    IN IF m = 0
       THEN NoEffect(send(NoOut, c, EventMsg("nothing to drop", c, <<>>)), "nothing")
       ELSE Effect(loc, [inv EXCEPT ![c] = 0], [coins EXCEPT ![loc[c]] = m],
                   occupants, lastSender,
                   send(send(NoOut, c, EventMsg("dropped", c, <<>>)), c, InventoryMsg(0)),
                   "dropped")

dropCoins(c) ==
    LET m == inv[c]
    IN IF m = 0
       THEN NoEffect(send(NoOut, c, EventMsg("nothing to drop", c, <<>>)), "nothing")
       ELSE Effect(loc, [inv EXCEPT ![c] = 0], [coins EXCEPT ![loc[c]] = @ + m],
                   occupants, lastSender,
                   send(send(NoOut, c, EventMsg("dropped", c, <<>>)), c, InventoryMsg(0)),
                   "dropped")

-----------------------------------------------------------------------------
(* MessagingRouter.                                                        *)

\* /tell all and /yell all: whether the sender is among the recipients and
\* whether its own last-sender is set is left open by the design, so every
\* policy is a possible behaviour.
BroadcastPolicies == {"exclude", "deliver", "deliverAndTrack"}

UpperText(text) == [i \in 1..Len(text) |-> Upper(text[i])]

Said(shout, text) == IF shout THEN UpperText(text) ELSE text

\* a tell that delivers but does not record the sender
tellForgetsSender(c, t, text, shout) ==
    IF t \notin presence THEN Fail(c, "NotFound")
    ELSE Effect(loc, inv, coins, occupants, lastSender,
                send(send(NoOut, t,
                          EventMsg(IF shout THEN "yellsAtYou" ELSE "tellsYou", c,
                                   Said(shout, text))),
                     c, EventMsg("sent", t, Said(shout, text))),
                "sent")

\* a tell that does not check that the target is still online
tellUnchecked(c, t, text, shout) ==
    Effect(loc, inv, coins, occupants, [lastSender EXCEPT ![t] = c],
           send(send(NoOut, t,
                     EventMsg(IF shout THEN "yellsAtYou" ELSE "tellsYou", c,
                              Said(shout, text))),
                c, EventMsg("sent", t, Said(shout, text))),
           "sent")

\* a tell that is also heard by the others in the room of the sender
tellToRoom(c, t, text, shout) ==
    IF t \notin presence THEN Fail(c, "NotFound")
    ELSE Effect(loc, inv, coins, occupants, [lastSender EXCEPT ![t] = c],
                send(sendToRoom(send(NoOut, t,
                                     EventMsg(IF shout THEN "yellsAtYou" ELSE "tellsYou", c,
                                              Said(shout, text))),
                                occupants, loc[c],
                                EventMsg(IF shout THEN "yellsAtYou" ELSE "tellsYou", c,
                                         Said(shout, text)), c),
                     c, EventMsg("sent", t, Said(shout, text))),
                "sent")

\* direct message to the character id t
tell(c, t, text, shout) ==
    IF t \notin presence THEN Fail(c, "NotFound")
    ELSE Effect(loc, inv, coins, occupants, [lastSender EXCEPT ![t] = c],
                send(send(NoOut, t,
                          EventMsg(IF shout THEN "yellsAtYou" ELSE "tellsYou", c,
                                   Said(shout, text))),
                     c, EventMsg("sent", t, Said(shout, text))),
                "sent")

tellAll(c, text, shout, policy) ==
    LET recipients == IF policy = "exclude" THEN presence \ {c} ELSE presence
        tracked == IF policy = "deliverAndTrack" THEN presence ELSE presence \ {c}
        m == EventMsg(IF shout THEN "yellsAtEveryone" ELSE "tellsEveryone", c,
                      Said(shout, text))
        o1 == sendToAll(NoOut, m, Chars \ recipients)
    IN Effect(loc, inv, coins, occupants,
              [x \in Chars |-> IF x \in tracked THEN c ELSE lastSender[x]],
              IF c \in recipients THEN o1 ELSE send(o1, c, EventMsg("sent", None, Said(shout, text))),
              "sentAll")

\* a reply that does not check that a last-sender is recorded
replyUnchecked(c, text) == tell(c, lastSender[c], text, FALSE)

reply(c, text) ==
    IF lastSender[c] = None THEN Fail(c, "NoPriorSender")
    ELSE tell(c, lastSender[c], text, FALSE)

messageTo(c, args, shout, policy) ==
    IF Len(args) < 2 THEN Fail(c, "UsageError")
    ELSE LET r == resolveCharacterName(args[1], OnlineNames)
         IN CASE r.kind = "all" -> tellAll(c, Tail(args), shout, policy)
              [] r.kind = "hit" -> tell(c, CharOfName(r.name), Tail(args), shout)
              [] r.kind = "Ambiguous" ->
                    NoEffect(send(NoOut, c, ErrorMsg("Ambiguous", r.candidates)), "Ambiguous")
              [] OTHER -> Fail(c, "NotFound")

-----------------------------------------------------------------------------
(* Emotes: one generic handler parameterized by the matched verb.          *)

wDance == <<"/","d","a","n","c","e">>
wJump == <<"/","j","u","m","p">>
wSmile == <<"/","s","m","i","l","e">>
wBurp == <<"/","b","u","r","p">>
wSneeze == <<"/","s","n","e","e","z","e">>
wCough == <<"/","c","o","u","g","h">>

EmoteVerbs == {wDance, wJump, wSmile, wBurp, wSneeze, wCough}

\* an emote that is announced to everybody online
emoteToAll(c, verb) ==
    NoEffect(send(sendToAll(NoOut, EventMsg("emote", c, <<verb>>), {c}),
                  c, EventMsg("emoted", c, <<verb>>)),
             "emoted")

emote(c, verb) ==
    NoEffect(send(sendToRoom(NoOut, occupants, loc[c], EventMsg("emote", c, <<verb>>), c),
                  c, EventMsg("emoted", c, <<verb>>)),
             "emoted")

-----------------------------------------------------------------------------
(* CommandPipeline: Parse -> Resolve -> Execute -> Emit.  A line is the    *)
(* sequence of its words.                                                  *)

wLook == <<"l","o","o","k">>
wCollect == <<"c","o","l","l","e","c","t">>
wDrop == <<"d","r","o","p">>
wGo == <<"g","o">>
wTell == <<"/","t","e","l","l">>
wYell == <<"/","y","e","l","l">>
wReply == <<"/","r","e","p","l","y">>

wSay == <<"s","a","y">>

\* the pipeline before the say command was removed: say speaks to the others
\* in the room
handleWithSay(c, line, policy) ==
    LET verb == line[1]
        args == Tail(line)
    IN CASE DirectionOf(verb) # None -> moveCharacter(c, DirectionOf(verb))
         [] verb = wGo ->
                IF Len(args) = 0 \/ DirectionOf(args[1]) = None THEN Fail(c, "UsageError")
                ELSE moveCharacter(c, DirectionOf(args[1]))
         [] verb = wLook -> look(c)
         [] verb = wCollect -> collectCoins(c)
         [] verb = wDrop -> dropCoins(c)
         [] verb = wSay ->
                NoEffect(sendToRoom(NoOut, occupants, loc[c], EventMsg("says", c, args), c),
                         "said")
         [] verb = wTell -> messageTo(c, args, FALSE, policy)
         [] verb = wYell -> messageTo(c, args, TRUE, policy)
         [] verb = wReply -> IF Len(args) < 1 THEN Fail(c, "UsageError") ELSE reply(c, args)
         [] verb \in EmoteVerbs -> emote(c, verb)
         [] OTHER -> Fail(c, "UnknownCommand")

handle(c, line, policy) ==
    LET verb == line[1]
        args == Tail(line)
    IN CASE DirectionOf(verb) # None -> moveCharacter(c, DirectionOf(verb))
         [] verb = wGo ->
                IF Len(args) = 0 \/ DirectionOf(args[1]) = None THEN Fail(c, "UsageError")
                ELSE moveCharacter(c, DirectionOf(args[1]))
         [] verb = wLook -> look(c)
         [] verb = wCollect -> collectCoins(c)
         [] verb = wDrop -> dropCoins(c)
         [] verb = wTell -> messageTo(c, args, FALSE, policy)
         [] verb = wYell -> messageTo(c, args, TRUE, policy)
         [] verb = wReply -> IF Len(args) < 1 THEN Fail(c, "UsageError") ELSE reply(c, args)
         [] verb \in EmoteVerbs -> emote(c, verb)
         [] OTHER -> Fail(c, "UnknownCommand")

-----------------------------------------------------------------------------
(* CharacterRegistry and session lifecycle.                                *)

\* a listing that forgets to filter the templates in use
listAvailableAll == Chars

listAvailable == Chars \ registry

\* a checkout that never refuses
checkoutAlways(c) == TRUE

\* checkout fails AlreadyInUse when the id is already bound
checkout(c) == c \notin registry

NoResolve == [kind |-> "none", name |-> <<>>, candidates |-> {}]

Label(op, actor, line, res) == [op |-> op, actor |-> actor, line |-> line, res |-> res]

\* the sum of the values of f over the set S
RECURSIVE SumOver(_, _)
SumOver(f, S) ==
    IF S = {} THEN 0
    ELSE LET x == CHOOSE y \in S : TRUE IN f[x] + SumOver(f, S \ {x})

\* the GameClient after its constructor and init(): no session, no
\* websocket, the login overlay showing, the first fetch of the available
\* characters on its way
ClientStart ==
    [sessionId |-> None, character |-> None, ws |-> "null", overlay |-> TRUE,
     error |-> "", characters |-> {}, logins |-> [c \in Chars |-> 0],
     fetches |-> 1, sockets |-> 0, sent |-> 0]

InitWorld ==
    /\ registry = {}
    /\ sessions = [c \in Chars |-> 0]
    /\ presence = {}
    /\ loc = StartRoom
    /\ inv = [c \in Chars |-> 0]
    /\ coins \in InitialCoins
    /\ occupants = [r \in Rooms |-> {}]
    /\ lastSender = [c \in Chars |-> None]
    /\ out = NoOut
    /\ last = Label("init", None, <<>>, "ok")
    /\ pending = [c \in Chars |-> 0]
    /\ recent = [c \in Chars |-> None]
    /\ inbox = [c \in Chars |-> <<>>]
    /\ channel = [c \in Chars |-> <<>>]
    /\ saving = FALSE
    /\ client = ClientStart

Init ==
    /\ InitWorld
    /\ rnames = {}
    /\ rtoken = <<>>
    /\ rresult = NoResolve

\* the server side of POST /api/login: checkout, session creation, register
login(c) ==
    /\ IF checkout(c)
       THEN /\ registry' = registry \cup {c}
            /\ sessions' = [sessions EXCEPT ![c] = @ + 1]
            /\ presence' = presence \cup {c}
            /\ occupants' = [occupants EXCEPT ![loc[c]] = @ \cup {c}]
            /\ lastSender' = [lastSender EXCEPT ![c] = None]
            /\ last' = Label("login", c, <<>>, "ok")
       ELSE /\ UNCHANGED <<registry, sessions, presence, occupants, lastSender>>
            /\ last' = Label("login", c, <<>>, "AlreadyInUse")
    /\ out' = NoOut
    /\ UNCHANGED <<loc, inv, coins, recent>>
    /\ UNCHANGED queueVars
    /\ UNCHANGED resolveVars

\* a login request that is served as soon as it arrives
Login(c) == login(c) /\ UNCHANGED <<pending, client>>

\* what a teardown finds: no session to end, lines received and not yet
\* handled, which are dropped, or neither
torn(c) ==
    IF c \notin presence THEN "idle"
    ELSE IF inbox[c] # <<>> THEN "dropped" ELSE "ok"

\* a teardown that leaves the registry binding of the character behind
DisconnectKeepsBinding(c) ==
    /\ presence' = presence \ {c}
    /\ registry' = registry
    /\ sessions' = [sessions EXCEPT ![c] = 0]
    /\ occupants' = [r \in Rooms |-> occupants[r] \ {c}]
    /\ lastSender' = [lastSender EXCEPT ![c] = None]
    /\ recent' = [recent EXCEPT ![c] = IF @ = None THEN None ELSE Stale]
    /\ inbox' = [inbox EXCEPT ![c] = <<>>]
    /\ channel' = [channel EXCEPT ![c] = <<>>]
    /\ out' = NoOut
    /\ last' = Label("disconnect", c, <<>>, torn(c))
    /\ UNCHANGED <<loc, inv, coins, pending, saving>>
    /\ UNCHANGED resolveVars
    /\ UNCHANGED client

\* a teardown that does not cancel the pending receive: the lines of the
\* ended session stay in the inbox
DisconnectKeepsInbox(c) ==
    /\ presence' = presence \ {c}
    /\ registry' = registry \ {c}
    /\ sessions' = [sessions EXCEPT ![c] = 0]
    /\ occupants' = [r \in Rooms |-> occupants[r] \ {c}]
    /\ lastSender' = [lastSender EXCEPT ![c] = None]
    /\ recent' = [recent EXCEPT ![c] = IF @ = None THEN None ELSE Stale]
    /\ channel' = [channel EXCEPT ![c] = <<>>]
    /\ out' = NoOut
    /\ last' = Label("disconnect", c, <<>>, torn(c))
    /\ UNCHANGED <<loc, inv, coins, pending, saving, inbox>>
    /\ UNCHANGED resolveVars
    /\ UNCHANGED client

\* a teardown that leaves the coins of the character in its room
DisconnectDropsCoins(c) ==
    /\ presence' = presence \ {c}
    /\ registry' = registry \ {c}
    /\ sessions' = [sessions EXCEPT ![c] = 0]
    /\ occupants' = [r \in Rooms |-> occupants[r] \ {c}]
    /\ lastSender' = [lastSender EXCEPT ![c] = None]
    /\ recent' = [recent EXCEPT ![c] = IF @ = None THEN None ELSE Stale]
    /\ inbox' = [inbox EXCEPT ![c] = <<>>]
    /\ channel' = [channel EXCEPT ![c] = <<>>]
    /\ coins' = [coins EXCEPT ![loc[c]] = @ + inv[c]]
    /\ inv' = [inv EXCEPT ![c] = 0]
    /\ out' = NoOut
    /\ last' = Label("disconnect", c, <<>>, torn(c))
    /\ UNCHANGED <<loc, pending, saving>>
    /\ UNCHANGED resolveVars
    /\ UNCHANGED client

\* the server side of a closed connection: the pending receive is cancelled,
\* then unregister and session teardown, unconditional and idempotent
teardown(c) ==
    /\ presence' = presence \ {c}
    /\ registry' = registry \ {c}
    /\ sessions' = [sessions EXCEPT ![c] = 0]
    /\ occupants' = [r \in Rooms |-> occupants[r] \ {c}]
    /\ lastSender' = [lastSender EXCEPT ![c] = None]
    /\ recent' = [recent EXCEPT ![c] = IF @ = None THEN None ELSE Stale]
    /\ inbox' = [inbox EXCEPT ![c] = <<>>]
    /\ channel' = [channel EXCEPT ![c] = <<>>]
    /\ out' = NoOut
    /\ last' = Label("disconnect", c, <<>>, torn(c))
    /\ UNCHANGED <<loc, inv, coins, pending, saving>>
    /\ UNCHANGED resolveVars

\* the connection of a player is closed
Disconnect(c) == teardown(c) /\ UNCHANGED client

TellKinds == {"tellsYou", "yellsAtYou", "tellsEveryone", "yellsAtEveryone"}

\* the tell/yell messages among the messages delivered to one character
Told(box) == SelectSeq(box, LAMBDA m : m.type = "event" /\ m.kind \in TellKinds)

\* the Execute and Emit steps of one line: the effect e of its handler is
\* applied to the stores at the serialization point, all of it at once
applied(c, line, e) ==
    /\ loc' = e.loc
    /\ inv' = e.inv
    /\ coins' = e.coins
    /\ occupants' = e.occupants
    /\ lastSender' = e.lastSender
    /\ out' = e.out
    /\ recent' = [x \in Chars |->
                    IF Told(e.out[x]) # <<>>
                    THEN Told(e.out[x])[Len(Told(e.out[x]))].who
                    ELSE recent[x]]
    /\ last' = Label("command", c, line, e.res)
    /\ UNCHANGED <<registry, sessions, presence, pending>>
    /\ UNCHANGED resolveVars
    /\ UNCHANGED client

\* one line received from the connection of an online character and handled
\* at once, the client reading what it is sent without delay
Command(c, line, policy) ==
    /\ c \in presence
    /\ \E e \in {handle(c, line, policy)} : applied(c, line, e)
    /\ UNCHANGED queueVars

\* the broadcast policy matters to /tell all and /yell all only
PoliciesFor(line) ==
    IF line[1] \in {wTell, wYell} /\ Len(line) > 1 /\ Lower(line[2]) = wAll
    THEN BroadcastPolicies ELSE {"exclude"}

-----------------------------------------------------------------------------
(* The world scenario: the players look, move and move coins.              *)

wHi == <<"h","i">>

WorldLines ==
    {<<wLook>>, <<wCollect>>, <<wDrop>>, <<wGo, wEast>>, <<<<"w">>>>, <<wNorth>>}

Next ==
    \/ \E c \in Chars : Login(c)
    \/ \E c \in Chars : Disconnect(c)
    \/ \E c \in Chars, line \in WorldLines : \E policy \in PoliciesFor(line) : Command(c, line, policy)

Spec == Init /\ [][Next]_vars

-----------------------------------------------------------------------------
(* The messaging scenario: the same server, the players type /tell, /yell  *)
(* and /reply lines.                                                       *)

tBob == <<"b","o","b">>
tBO == <<"B","O">>
tBoris == <<"B","o","r","i","s">>
tCara == <<"C","A","R","A">>
tZed == <<"z","e","d">>

wFrob == <<"/","f","r","o","b">>

\* the lines of the messaging verbs, and lines that are refused: a move
\* where there is no exit, the removed say command, an unknown slash verb
MsgLines ==
    {<<wTell, tBob, wHi>>, <<wTell, tBO, wHi>>, <<wYell, tBoris, wHi>>,
     <<wTell, tCara, wHi>>, <<wTell, wAll, wHi>>, <<wYell, wAll, wHi>>,
     <<wReply, wHi>>, <<wTell, tZed, wHi>>, <<wTell, tBob>>,
     <<wNorth>>, <<wSay, wHi>>, <<wFrob>>}

NextMsg ==
    \/ \E c \in Chars : Login(c)
    \/ \E c \in Chars : Disconnect(c)
    \/ \E c \in Chars, line \in MsgLines : \E policy \in PoliciesFor(line) : Command(c, line, policy)

SpecMsg == Init /\ [][NextMsg]_vars

-----------------------------------------------------------------------------
(* The session scenario: the players collect coins and message everybody   *)
(* between logging in and disconnecting.                                   *)

SessionLines == {<<wCollect>>, <<wTell, wAll, wHi>>}

NextSession ==
    \/ \E c \in Chars : Login(c)
    \/ \E c \in Chars : Disconnect(c)
    \/ \E c \in Chars, line \in SessionLines : \E policy \in PoliciesFor(line) : Command(c, line, policy)

SpecSession == Init /\ [][NextSession]_vars

-----------------------------------------------------------------------------
(* The emote scenario: the players walk between the rooms and type slash   *)
(* verbs, of the vocabulary and not.                                       *)

EmoteLines == {<<wDance>>, <<wSneeze>>, <<wFrob>>, <<wEast>>, <<wWest>>}

NextEmote ==
    \/ \E c \in Chars : Login(c)
    \/ \E c \in Chars : Disconnect(c)
    \/ \E c \in Chars, line \in EmoteLines : \E policy \in PoliciesFor(line) : Command(c, line, policy)

SpecEmote == Init /\ [][NextEmote]_vars

-----------------------------------------------------------------------------
(* The login scenario: several browser tabs post login requests for the    *)
(* same character before the server has served any of them.                *)

MaxPending == 2

\* the client posts /api/login for a character it was shown as available
RequestLogin(c) ==
    /\ pending[c] < MaxPending
    /\ pending' = [pending EXCEPT ![c] = @ + 1]
    /\ out' = NoOut
    /\ last' = Label("request", c, <<>>, "ok")
    /\ UNCHANGED world
    /\ UNCHANGED <<recent>>
    /\ UNCHANGED queueVars
    /\ UNCHANGED resolveVars
    /\ UNCHANGED client

\* the server takes one request in flight and serves it
ServeLogin(c) ==
    /\ pending[c] > 0
    /\ pending' = [pending EXCEPT ![c] = @ - 1]
    /\ login(c)
    /\ UNCHANGED client

NextLogin ==
    \/ \E c \in Chars : RequestLogin(c)
    \/ \E c \in Chars : ServeLogin(c)
    \/ \E c \in Chars : Disconnect(c)

SpecLogin == Init /\ [][NextLogin]_vars

-----------------------------------------------------------------------------
(* The queued scenario: one task per connection.  The client writes lines  *)
(* to its websocket, the task of the connection takes them one by one to   *)
(* the serialization point, and what a step sends goes to the send buffer  *)
(* of each recipient, from which its client reads at its own pace.         *)

MaxInbox == 2

ChannelCap == 1

Min(a, b) == IF a < b THEN a ELSE b

\* drop-on-backpressure: what does not fit the buffer of a connection is lost
enqueue(buf, msgs) == buf \o SubSeq(msgs, 1, Min(Len(msgs), ChannelCap - Len(buf)))

deliver(ch, o) == [x \in Chars |-> enqueue(ch[x], o[x])]

\* the client sends a line over its open websocket
Submit(c, line) ==
    /\ c \in presence
    /\ Len(inbox[c]) < MaxInbox
    /\ inbox' = [inbox EXCEPT ![c] = Append(@, line)]
    /\ out' = NoOut
    /\ last' = Label("submit", c, line, "ok")
    /\ UNCHANGED <<world, pending, recent, channel, saving>>
    /\ UNCHANGED resolveVars
    /\ UNCHANGED client

\* a connection task that handles the newest line it has received first
ExecuteNewestFirst(c) ==
    /\ c \in presence
    /\ inbox[c] # <<>>
    /\ \E policy \in PoliciesFor(inbox[c][Len(inbox[c])]) :
          \E e \in {handle(c, inbox[c][Len(inbox[c])], policy)} :
             applied(c, inbox[c][Len(inbox[c])], e)
    /\ inbox' = [inbox EXCEPT ![c] = SubSeq(@, 1, Len(@) - 1)]
    /\ UNCHANGED <<channel, saving>>

\* the task of connection c takes the oldest line it has received through
\* the pipeline; the clients read what they are sent without delay
Execute(c) ==
    /\ c \in presence
    /\ inbox[c] # <<>>
    /\ \E policy \in PoliciesFor(Head(inbox[c])) :
          \E e \in {handle(c, Head(inbox[c]), policy)} :
             applied(c, Head(inbox[c]), e)
    /\ inbox' = [inbox EXCEPT ![c] = Tail(@)]
    /\ UNCHANGED <<channel, saving>>

\* a connection task that waits until every recipient has room for what the
\* step sends, holding the serialization point meanwhile
ExecuteAwaitsSend(c) ==
    /\ c \in presence
    /\ inbox[c] # <<>>
    /\ \E policy \in PoliciesFor(Head(inbox[c])) :
          \E e \in {handle(c, Head(inbox[c]), policy)} :
             /\ \A x \in Chars : Len(channel[x]) + Len(e.out[x]) <= ChannelCap
             /\ applied(c, Head(inbox[c]), e)
             /\ channel' = deliver(channel, e.out)
    /\ inbox' = [inbox EXCEPT ![c] = Tail(@)]
    /\ UNCHANGED saving

\* the same step with clients that read at their own pace: what the step
\* sends goes to the send buffers; the sends are detached and never make
\* the step wait
ExecuteBuffered(c) ==
    /\ c \in presence
    /\ inbox[c] # <<>>
    /\ \E policy \in PoliciesFor(Head(inbox[c])) :
          \E e \in {handle(c, Head(inbox[c]), policy)} :
             /\ applied(c, Head(inbox[c]), e)
             /\ channel' = deliver(channel, e.out)
    /\ inbox' = [inbox EXCEPT ![c] = Tail(@)]
    /\ UNCHANGED saving

\* the client reads the next message of its websocket
Receive(c) ==
    /\ channel[c] # <<>>
    /\ channel' = [channel EXCEPT ![c] = Tail(@)]
    /\ out' = NoOut
    /\ last' = Label("receive", c, <<>>, Head(channel[c]).type)
    /\ UNCHANGED <<world, pending, recent, inbox, saving>>
    /\ UNCHANGED resolveVars
    /\ UNCHANGED client

\* a snapshot is taken at the serialization point and handed to the
\* persistence gateway
SaveStart ==
    /\ ~saving
    /\ saving' = TRUE
    /\ out' = NoOut
    /\ last' = Label("save", None, <<>>, "started")
    /\ UNCHANGED <<world, pending, recent, inbox, channel>>
    /\ UNCHANGED resolveVars
    /\ UNCHANGED client

\* the write of the snapshot completes
SaveDone ==
    /\ saving
    /\ saving' = FALSE
    /\ out' = NoOut
    /\ last' = Label("save", None, <<>>, "done")
    /\ UNCHANGED <<world, pending, recent, inbox, channel>>
    /\ UNCHANGED resolveVars
    /\ UNCHANGED client

\* two players that start in the same room
QueuePlayers == {"bob", "boris"}

QueueLines == {<<wCollect>>, <<wEast>>}

NextQueue ==
    \/ \E c \in QueuePlayers : Login(c)
    \/ \E c \in QueuePlayers : Disconnect(c)
    \/ \E c \in QueuePlayers, line \in QueueLines : Submit(c, line)
    \/ \E c \in QueuePlayers : Execute(c)

SpecQueue == Init /\ [][NextQueue]_vars

-----------------------------------------------------------------------------
(* The slow peer scenario: the clients read at their own pace or not at    *)
(* all, and snapshot saves take their time.  The task of a connection that *)
(* has a line to handle is scheduled eventually; nothing is assumed about  *)
(* the clients or the persistence gateway.                                 *)

LiveLines == {<<wDance>>}

NextLive ==
    \/ \E c \in QueuePlayers : Login(c)
    \/ \E c \in QueuePlayers : Disconnect(c)
    \/ \E c \in QueuePlayers, line \in LiveLines : Submit(c, line)
    \/ \E c \in QueuePlayers : ExecuteBuffered(c)
    \/ \E c \in QueuePlayers : Receive(c)
    \/ SaveStart
    \/ SaveDone

SpecLive ==
    /\ Init
    /\ [][NextLive]_vars
    /\ \A c \in QueuePlayers : WF_vars(ExecuteBuffered(c))

-----------------------------------------------------------------------------
(* The mixed scenario: two players use every kind of command while         *)
(* snapshots are saved.                                                    *)

FrameLines ==
    {<<wCollect>>, <<wDrop>>, <<wEast>>, <<wLook>>, <<wDance>>,
     <<wTell, tBob, wHi>>, <<wYell, tBoris, wHi>>, <<wYell, wAll, wHi>>,
     <<wReply, wHi>>}

NextFrame ==
    \/ \E c \in QueuePlayers : Login(c)
    \/ \E c \in QueuePlayers : Disconnect(c)
    \/ \E c \in QueuePlayers, line \in FrameLines : \E policy \in PoliciesFor(line) : Command(c, line, policy)
    \/ SaveStart
    \/ SaveDone

SpecFrame == Init /\ [][NextFrame]_vars

-----------------------------------------------------------------------------
(* The client scenario: one browser tab with its GameClient, the server it *)
(* talks to, and other players taking and releasing characters.            *)

MaxClicks == 2

MaxFetches == 2

MaxSent == 2

RECURSIVE TrimLeft(_)
TrimLeft(t) == IF t # <<>> /\ t[1] = " " THEN TrimLeft(Tail(t)) ELSE t

RECURSIVE TrimRight(_)
TrimRight(t) ==
    IF t # <<>> /\ t[Len(t)] = " " THEN TrimRight(SubSeq(t, 1, Len(t) - 1)) ELSE t

\* String.prototype.trim on the text of the input field
Trim(t) == TrimRight(TrimLeft(t))

InFlight == SumOver(client.logins, Chars)

\* the server side of the step does not touch what the client spec leaves to
\* the server scenarios
ClientOnly ==
    /\ out' = NoOut
    /\ UNCHANGED <<world, pending, recent>>
    /\ UNCHANGED queueVars
    /\ UNCHANGED resolveVars

\* the response of GET /api/characters/available arrives: the list is
\* rendered and the login error cleared
FetchDone ==
    /\ client.fetches > 0
    /\ client' = [client EXCEPT !.fetches = @ - 1, !.characters = listAvailable,
                                !.error = ""]
    /\ last' = Label("fetch", None, <<>>, "ok")
    /\ ClientOnly

\* the fetch fails
FetchFail ==
    /\ client.fetches > 0
    /\ client' = [client EXCEPT !.fetches = @ - 1, !.error = "load"]
    /\ last' = Label("fetch", None, <<>>, "failed")
    /\ ClientOnly

\* the user clicks a character of the rendered list: login() clears the
\* error and posts /api/login
Click(c) ==
    /\ client.overlay
    /\ c \in client.characters
    /\ InFlight < MaxClicks
    /\ client' = [client EXCEPT !.error = "", !.logins[c] = @ + 1]
    /\ last' = Label("click", c, <<>>, "ok")
    /\ ClientOnly

\* the server serves a login request of the client and the response
\* arrives: on success the session id is stored, the overlay hidden and the
\* websocket created; otherwise the error is shown and the list re-fetched
LoginResponse(c) ==
    /\ client.logins[c] > 0
    /\ checkout(c) \/ client.fetches < MaxFetches
    /\ login(c)
    /\ client' = IF checkout(c)
                 THEN [client EXCEPT !.logins[c] = @ - 1, !.sessionId = c,
                                     !.character = c, !.overlay = FALSE,
                                     !.ws = "CONNECTING", !.sockets = @ + 1]
                 ELSE [client EXCEPT !.logins[c] = @ - 1, !.error = "login",
                                     !.fetches = @ + 1]
    /\ UNCHANGED pending

\* the login request fails on its way: loginWithCharacter throws
LoginLost(c) ==
    /\ client.logins[c] > 0
    /\ client.fetches < MaxFetches
    /\ client' = [client EXCEPT !.logins[c] = @ - 1, !.error = "login",
                                !.fetches = @ + 1]
    /\ last' = Label("login", c, <<>>, "failed")
    /\ ClientOnly

\* the websocket of the client opens
WsOpen ==
    /\ client.ws = "CONNECTING"
    /\ client' = [client EXCEPT !.ws = "OPEN"]
    /\ last' = Label("open", client.character, <<>>, "ok")
    /\ ClientOnly

\* the websocket of the client closes and the server tears the session down
WsClose ==
    /\ client.ws \in {"CONNECTING", "OPEN"}
    /\ client' = [client EXCEPT !.ws = "CLOSED"]
    /\ teardown(client.character)

\* GameClient.sendCommand
sendCommand(text) ==
    /\ client.sent < MaxSent
    /\ IF text = <<>> \/ client.ws # "OPEN"
       THEN /\ client' = client
            /\ last' = Label("send", client.character, text, "dropped")
       ELSE /\ client' = [client EXCEPT !.sent = @ + 1]
            /\ last' = Label("send", client.character, text, "sent")
    /\ ClientOnly

\* Enter in the command input: the trimmed value, unless empty, goes to
\* sendCommand
EnterKey(text) ==
    IF Trim(text) = <<>>
    THEN /\ client' = client
         /\ last' = Label("enter", client.character, text, "empty")
         /\ ClientOnly
    ELSE sendCommand(Trim(text))

\* a click on a control button: its data-command, unless empty, goes to
\* sendCommand
ButtonClick(cmd) ==
    IF cmd = <<>>
    THEN /\ client' = client
         /\ last' = Label("button", client.character, cmd, "empty")
         /\ ClientOnly
    ELSE sendCommand(cmd)

InputTexts == {<<>>, <<" ">>, <<"l","o","o","k">>, <<" ","e"," ">>}

ButtonCommands == {<<"n">>, <<>>}

\* the characters whose sessions were created by the client
Mine == {c \in Chars : client.character = c /\ client.ws \in {"CONNECTING", "OPEN"}}

NextClient ==
    \/ FetchDone
    \/ FetchFail
    \/ \E c \in Chars : Click(c)
    \/ \E c \in Chars : LoginResponse(c)
    \/ \E c \in Chars : LoginLost(c)
    \/ WsOpen
    \/ WsClose
    \/ \E text \in InputTexts : EnterKey(text)
    \/ \E cmd \in ButtonCommands : ButtonClick(cmd)
    \/ \E c \in QueuePlayers \ Mine : Login(c)
    \/ \E c \in QueuePlayers \ Mine : Disconnect(c)

SpecClient == Init /\ [][NextClient]_vars

-----------------------------------------------------------------------------
(* Name resolution as a function of its inputs: any set of online display  *)
(* names drawn from a pool of names, any token of a pool of tokens.        *)

MaxOnline == 3

nBob == << <<"B","o","b">>, <<"t","h","e">>, <<"B","r","a","v","e">> >>
nBoris == << <<"B","o","r","i","s">>, <<"t","h","e">>, <<"B","o","l","d">> >>
nBobby == << <<"B","o","b","b","y">>, <<"t","h","e">>, <<"B","a","l","d">> >>
nCara == << <<"C","a","r","a">>, <<"t","h","e">>, <<"C","l","e","v","e","r">> >>
nBo == << <<"B","o">> >>

NamePool == {nBob, nBoris, nBobby, nCara, nBo}

TokenPool ==
    UNION {{FirstWord(n), Lower(FirstWord(n)), Upper(FirstWord(n))} : n \in NamePool}
        \cup {<<"b">>, tZed, wAll, <<"A","l","l">>, <<"b","O","r">>}

Queries == {ns \in SUBSET NamePool : Cardinality(ns) <= MaxOnline} \X TokenPool

InitResolve ==
    /\ InitWorld
    /\ \E q \in Queries : rnames = q[1] /\ rtoken = q[2]
    /\ rresult = NoResolve

\* the router resolves the target token of the line against the online names
Resolve ==
    /\ rresult = NoResolve
    /\ rresult' = resolveCharacterName(rtoken, rnames)
    /\ UNCHANGED <<rnames, rtoken>>
    /\ UNCHANGED <<world, out, last, pending, recent>>
    /\ UNCHANGED queueVars
    /\ UNCHANGED client

NextResolve == Resolve

SpecResolve == InitResolve /\ [][NextResolve]_vars

-----------------------------------------------------------------------------
(* Properties of the world scenario.                                       *)

TotalCoins == SumOver(coins, Rooms) + SumOver(inv, Chars)

IsCommand(l, verb) == l.op = "command" /\ l.line[1] = verb

\* C1: coin conservation.  Whatever the initial world, no step changes the
\* coins of all rooms plus the coins of all inventories, so the sum keeps
\* its initial value, and no room count and no inventory count is negative.
C1_CoinConservation ==
    /\ [](\A r \in Rooms : coins[r] >= 0)
    /\ [](\A c \in Chars : inv[c] >= 0)
    /\ [][TotalCoins' = TotalCoins]_vars

\* C1 witness: coins were collected and dropped: a character has just
\* dropped coins into a room other than the one they came from while
\* another character holds coins.
C1_Witness ==
    /\ IsCommand(last, wDrop) /\ last.res = "dropped"
    /\ \E c \in Chars \ {last.actor} : inv[c] > 0
    /\ coins["r3"] = 5

\* C3: registry bijection.  A template is in use iff exactly one live
\* session references it, no template has two sessions, and listAvailable
\* is exactly the set of templates without a live session.
C3_RegistryBijection ==
    /\ \A c \in Chars : sessions[c] \in {0, 1}
    /\ \A c \in Chars : (c \in registry) <=> (sessions[c] = 1)
    /\ listAvailable = {c \in Chars : sessions[c] = 0}

\* C3 witness: a character that played (it holds coins) has disconnected
\* and is available again while another character is still in use.
C3_Witness ==
    /\ last.op = "disconnect"
    /\ inv[last.actor] > 0
    /\ last.actor \in listAvailable
    /\ registry # {}

OnlineIn(r) == {c \in presence : loc[c] = r}

\* C4: shared visibility.  The occupant index of every room is the set of
\* online characters located there, a room description lists exactly the
\* other online characters of the room, and a successful move takes the
\* mover out of the occupants of the old room and into those of the new.
C4_SharedVisibility ==
    /\ [](\A r \in Rooms : occupants[r] = OnlineIn(r))
    /\ [](last.res \in {"look", "moved"} =>
            /\ out[last.actor][1].type = "roomState"
            /\ out[last.actor][1].room = loc[last.actor]
            /\ out[last.actor][1].others = OnlineIn(loc[last.actor]) \ {last.actor})
    /\ [][last'.res = "moved" =>
            /\ loc'[last'.actor] # loc[last'.actor]
            /\ last'.actor \notin occupants'[loc[last'.actor]]
            /\ last'.actor \in occupants'[loc'[last'.actor]]]_vars

\* C4 witness: a character has moved into a room where another online
\* character is, and the description it got names that character.
C4_Witness ==
    /\ last.res = "moved"
    /\ out[last.actor][1].others # {}
    /\ Cardinality(presence) = 3

\* C10: collect.  With n > 0 coins in the actor's room the room ends with 0
\* and the inventory has grown by n, everything else unchanged; with 0 coins
\* the result is the informational "nothing to collect" and the world is
\* unchanged.
C10_Collect ==
    [][IsCommand(last', wCollect) =>
        LET c == last'.actor
            n == coins[loc[c]]
        IN IF n > 0
           THEN /\ coins' = [coins EXCEPT ![loc[c]] = 0]
                /\ inv' = [inv EXCEPT ![c] = inv[c] + n]
                /\ UNCHANGED <<registry, sessions, presence, loc, occupants, lastSender>>
                /\ last'.res = "collected"
           ELSE /\ UNCHANGED world
                /\ last'.res = "nothing"
                /\ out' = [NoOut EXCEPT ![c] = <<EventMsg("nothing to collect", c, <<>>)>>]]_vars

\* C10 witness: a collect in an emptied room by a character that already
\* holds coins: "nothing to collect".
C10_Witness ==
    /\ IsCommand(last, wCollect) /\ last.res = "nothing"
    /\ inv[last.actor] > 0
    /\ coins[loc[last.actor]] = 0

\* C11: drop.  With m > 0 coins in the actor's inventory the inventory ends
\* with 0 and the room the actor is in when the drop executes has grown by
\* exactly m, everything else unchanged; with an empty inventory the result
\* is the informational "nothing to drop", not an error, and the world is
\* unchanged.
C11_Drop ==
    [][IsCommand(last', wDrop) =>
        LET c == last'.actor
            m == inv[c]
        IN IF m > 0
           THEN /\ inv' = [inv EXCEPT ![c] = 0]
                /\ coins' = [r \in Rooms |-> IF r = loc[c] THEN coins[r] + m ELSE coins[r]]
                /\ UNCHANGED <<registry, sessions, presence, loc, occupants, lastSender>>
                /\ last'.res = "dropped"
           ELSE /\ UNCHANGED world
                /\ last'.res = "nothing"
                /\ out' = [NoOut EXCEPT ![c] = <<EventMsg("nothing to drop", c, <<>>)>>]]_vars

\* C11 witness: the five coins collected in r1 have just been dropped in r2,
\* on top of the two coins that lay there.
C11_Witness ==
    /\ IsCommand(last, wDrop) /\ last.res = "dropped"
    /\ loc[last.actor] = "r2"
    /\ inv[last.actor] = 0
    /\ coins = [r \in Rooms |-> IF r = "r2" THEN 7 ELSE 0]

\* C20: move narration.  When X moves from R to S, X receives the
\* description of S and nothing else, exactly the other online characters
\* in S receive "X has entered", exactly those that stay in R receive "X has
\* left", and nobody in any other room and nobody offline receives
\* anything; X never receives its own entered or left.
C20_MoveNarration ==
    [][last'.res = "moved" =>
        LET x == last'.actor
            R == loc[x]
            S == loc'[x]
        IN /\ R # S
           /\ Len(out'[x]) = 1
           /\ out'[x][1].type = "roomState"
           /\ out'[x][1].room = S
           /\ \A y \in Chars \ {x} :
                 out'[y] = IF y \in presence /\ loc[y] = S
                           THEN <<EventMsg("entered", x, <<>>)>>
                           ELSE IF y \in presence /\ loc[y] = R
                                THEN <<EventMsg("left", x, <<>>)>>
                                ELSE <<>>]_vars

\* C20 witness: a character has moved out of a room where another stays
\* behind, the third character being in a room that is neither: one was
\* told that it left and the other nothing.
C20_Witness ==
    /\ last.res = "moved"
    /\ Cardinality(presence) = 3
    /\ \E y, z \in presence \ {last.actor} :
          /\ out[y] = <<EventMsg("left", last.actor, <<>>)>>
          /\ out[z] = <<>>
          /\ loc[z] \notin {loc[y], loc[last.actor]}

-----------------------------------------------------------------------------
(* Properties of the emote scenario.                                       *)

IsSlash(verb) == Len(verb) > 0 /\ verb[1] = "/"

Vocabulary == {wDance, wJump, wSmile, wBurp, wSneeze, wCough}

\* C21: emotes are room-scoped.  When a character types a slash verb of the
\* vocabulary, exactly the other online characters in its room receive the
\* announcement that it performed the verb, nobody in another room and
\* nobody offline receives anything, the actor does not receive the
\* announcement, and the world is unchanged; a slash verb that is neither in
\* the vocabulary nor a messaging verb gives UnknownCommand to the actor and
\* no announcement.
C21_EmoteRoomScoped ==
    /\ [][(last'.op = "command" /\ last'.line[1] \in Vocabulary) =>
            LET a == last'.actor
                m == EventMsg("emote", a, <<last'.line[1]>>)
            IN /\ last'.res = "emoted"
               /\ \A y \in Chars \ {a} :
                     out'[y] = IF y \in presence /\ loc[y] = loc[a] THEN <<m>> ELSE <<>>
               /\ \A i \in 1..Len(out'[a]) : out'[a][i] # m
               /\ UNCHANGED world]_vars
    /\ [][(/\ last'.op = "command" /\ IsSlash(last'.line[1])
            /\ last'.line[1] \notin Vocabulary \cup {wTell, wYell, wReply}) =>
            /\ last'.res = "UnknownCommand"
            /\ out' = [NoOut EXCEPT ![last'.actor] = <<ErrorMsg("UnknownCommand", {})>>]]_vars

\* C21 witness: a character that walked into the room of another has
\* sneezed there: the other was told, and the third character, online in the
\* room the actor came from, was not.
C21_Witness ==
    /\ IsCommand(last, wSneeze) /\ last.res = "emoted"
    /\ loc[last.actor] # StartRoom[last.actor]
    /\ \E y, z \in presence \ {last.actor} :
          /\ loc[y] = loc[last.actor]
          /\ out[y] = <<EventMsg("emote", last.actor, <<wSneeze>>)>>
          /\ loc[z] = StartRoom[last.actor]
          /\ out[z] = <<>>

-----------------------------------------------------------------------------
(* Properties of the session scenario.                                     *)

\* C12: disconnect teardown leaves no orphans.  Once the disconnect of C is
\* processed C has no presence entry, no live session, no registry binding,
\* no place in any occupant index and no last-sender, and C is listed as
\* available; the coins C moved before are where C left them; and the next
\* login of a character without a session is granted.
C12_DisconnectTeardown ==
    /\ [][last'.op = "disconnect" =>
            LET c == last'.actor
            IN /\ c \notin presence'
               /\ sessions'[c] = 0
               /\ c \notin registry'
               /\ \A r \in Rooms : c \notin occupants'[r]
               /\ lastSender'[c] = None
               /\ c \in listAvailable'
               /\ UNCHANGED <<loc, inv, coins>>]_vars
    /\ [][(last'.op = "login" /\ sessions[last'.actor] = 0) =>
            /\ last'.res = "ok"
            /\ sessions'[last'.actor] = 1
            /\ last'.actor \in presence']_vars

\* C12 witness: a character that had collected coins and had a last-sender
\* disconnected, and its next login has just been granted: it still holds
\* the coins and has no last-sender.
C12_Witness ==
    /\ last.op = "login" /\ last.res = "ok"
    /\ recent[last.actor] = Stale
    /\ lastSender[last.actor] = None
    /\ inv[last.actor] > 0
    /\ coins[loc[last.actor]] = 0

-----------------------------------------------------------------------------
(* Properties of the queued scenario.                                      *)

Queued == SumOver([c \in Chars |-> Len(inbox[c])], Chars)

RoomsOf(c) == {r \in Rooms : c \in occupants[r]}

\* C13: serialized mutation.  However the lines of the connections
\* interleave, every step that handles a line takes exactly one line from the
\* inboxes and applies the whole effect of its handler to the state the
\* previous step left, and nothing but such steps, logins and disconnects
\* changes the stores; so in every state, and in every room description
\* sent, a character that is online is in exactly one room: never in the
\* old and the new room of a move at once, and never in neither.
C13_SerializedMutation ==
    /\ [](\A c \in Chars : Cardinality(RoomsOf(c)) = IF c \in presence THEN 1 ELSE 0)
    /\ [](\A x \in Chars : \A i \in 1..Len(out[x]) :
            out[x][i].type = "roomState" =>
                /\ RoomsOf(x) = {out[x][i].room}
                /\ out[x][i].others = occupants[out[x][i].room] \ {x}
                /\ out[x][i].coins = coins[out[x][i].room])
    /\ [][last'.op = "command" =>
            /\ Queued' = Queued - 1
            /\ \E policy \in BroadcastPolicies :
                  LET e == handle(last'.actor, last'.line, policy)
                  IN /\ <<loc', inv', coins', occupants', lastSender'>>
                          = <<e.loc, e.inv, e.coins, e.occupants, e.lastSender>>
                     /\ out' = e.out
                     /\ last'.res = e.res]_vars
    /\ [][world' # world => last'.op \in {"command", "login", "disconnect"}]_vars

\* C13 witness: both players have lines waiting, one of them has just been
\* moved east, and the other, who stays behind, was told that it left.
C13_Witness ==
    /\ last.op = "command" /\ last.res = "moved"
    /\ \A c \in QueuePlayers : inbox[c] # <<>>
    /\ \E x \in QueuePlayers \ {last.actor} :
          /\ loc[x] # loc[last.actor]
          /\ out[x] = <<EventMsg("left", last.actor, <<>>)>>

\* C14: per-character ordering.  The lines of a connection are handled in
\* the order they were submitted: a submission goes to the end of the inbox
\* of its connection, a handled line is the oldest of its inbox, and only
\* the steps of a connection change its inbox, whatever the others do in
\* between.  A collect submitted before a move collects the coins of the
\* room the character is in before the move.
C14_PerCharacterOrder ==
    /\ [][last'.op = "submit" =>
            inbox' = [inbox EXCEPT ![last'.actor] = Append(@, last'.line)]]_vars
    /\ [][last'.op = "command" =>
            /\ inbox[last'.actor] # <<>>
            /\ last'.line = Head(inbox[last'.actor])
            /\ inbox' = [inbox EXCEPT ![last'.actor] = Tail(@)]]_vars
    /\ [][\A c \in Chars : inbox'[c] # inbox[c] => last'.actor = c]_vars
    /\ [][\A c \in Chars :
            (/\ last'.op = "command" /\ last'.actor = c
             /\ Len(inbox[c]) >= 2
             /\ inbox[c][1] = <<wCollect>>
             /\ DirectionOf(inbox[c][2][1]) # None)
            => /\ loc'[c] = loc[c]
               /\ coins'[loc[c]] = 0
               /\ inv'[c] = inv[c] + coins[loc[c]]
               /\ inbox'[c][1] = inbox[c][2]]_vars

\* C14 witness: a player that submitted collect and then east has had its
\* collect handled in the room it started in, the move still waiting, while
\* the other player has moved on and has lines waiting too.
C14_Witness ==
    /\ IsCommand(last, wCollect) /\ last.res = "collected"
    /\ inbox[last.actor] = << <<wEast>> >>
    /\ loc[last.actor] = "r1"
    /\ \E x \in QueuePlayers \ {last.actor} : loc[x] = "r2" /\ inbox[x] # <<>>

\* C19: a slow or stalled peer never blocks gameplay.  Whether or not the
\* other clients ever read what they are sent, and whether or not a save is
\* in progress, a line that a connection has submitted is eventually handled
\* and answered, unless its character disconnects first; and the step that
\* handles it is never held back by a full send buffer or a running save.
C19_StalledPeer ==
    /\ \A b \in QueuePlayers :
          (inbox[b] # <<>>) ~>
             (\/ last.op = "command" /\ last.actor = b /\ out[b] # <<>>
              \/ last.op = "disconnect" /\ last.actor = b)
    /\ [](\A b \in QueuePlayers :
            (b \in presence /\ inbox[b] # <<>>) => ENABLED ExecuteBuffered(b))

\* C19 witness: the send buffer of a peer is full of what it has not read
\* and a save is in progress; the line of the other player has been handled
\* and answered all the same, and what it sent to the peer was dropped.
C19_Witness ==
    /\ last.op = "command" /\ out[last.actor] # <<>>
    /\ saving
    /\ \E a \in QueuePlayers \ {last.actor} :
          /\ Len(channel[a]) = ChannelCap
          /\ channel[a][1].who = a
          /\ out[a] = <<EventMsg("emote", last.actor, <<wDance>>)>>

\* C23: disconnect racing a command.  However the disconnect of a character
\* interleaves with the lines it has in flight, a line is either handled
\* before the teardown, by a character that is online before and after the
\* step and with the whole effect of its handler, or dropped by the teardown
\* without any effect: a character that is not online has no line waiting
\* and no presence, occupant or registry entry, and only a login brings it
\* back.  A teardown of a character that is not online changes nothing.
C23_DisconnectRace ==
    /\ [](\A c \in Chars \ presence :
            /\ inbox[c] = <<>>
            /\ c \notin registry
            /\ sessions[c] = 0
            /\ RoomsOf(c) = {})
    /\ [][last'.op = "command" =>
            /\ last'.actor \in presence \cap presence'
            /\ last'.actor \in registry'
            /\ last'.line = Head(inbox[last'.actor])
            /\ \E policy \in BroadcastPolicies :
                  <<loc', inv', coins', occupants', lastSender', out'>>
                     = LET e == handle(last'.actor, last'.line, policy)
                       IN <<e.loc, e.inv, e.coins, e.occupants, e.lastSender, e.out>>]_vars
    /\ [][last'.op = "disconnect" =>
            /\ last'.res = "dropped" <=> (last'.actor \in presence /\ inbox[last'.actor] # <<>>)
            /\ inbox' = [inbox EXCEPT ![last'.actor] = <<>>]
            /\ out' = NoOut
            /\ UNCHANGED <<loc, inv, coins>>
            /\ occupants' = [r \in Rooms |-> occupants[r] \ {last'.actor}]
            /\ \A x \in Chars \ {last'.actor} : lastSender'[x] = lastSender[x]]_vars
    /\ [][(last'.op = "disconnect" /\ last'.actor \notin presence) =>
            /\ last'.res = "idle"
            /\ UNCHANGED world
            /\ UNCHANGED queueVars]_vars
    /\ [][\A c \in Chars : (c \notin presence /\ c \in presence') =>
            last'.op = "login" /\ last'.actor = c]_vars

\* C23 witness: a character that had collected coins and moved on has
\* disconnected with lines still waiting, which were dropped: it keeps the
\* coins and the room it reached, and the other player, online, has lines
\* waiting.
C23_Witness ==
    /\ last.op = "disconnect" /\ last.res = "dropped"
    /\ inv[last.actor] > 0
    /\ loc[last.actor] # StartRoom[last.actor]
    /\ inbox[last.actor] = <<>>
    /\ \E x \in presence : inbox[x] # <<>>

-----------------------------------------------------------------------------
(* Properties of the login scenario.                                       *)

\* C2: character exclusivity.  However login requests for one id interleave,
\* no id ever has two sessions: a request served while the id is bound
\* answers AlreadyInUse and creates no session, and a request is granted
\* only while the id is unbound.
C2_Exclusivity ==
    /\ [](\A c \in Chars : sessions[c] <= 1)
    /\ [][last'.op = "login" =>
            LET c == last'.actor
            IN IF c \in registry
               THEN /\ last'.res = "AlreadyInUse"
                    /\ UNCHANGED world
               ELSE /\ last'.res = "ok"
                    /\ sessions'[c] = 1
                    /\ c \in registry']_vars

\* C2 witness: of two requests that were in flight for one id, one has been
\* granted and the other has just been refused.
C2_Witness ==
    /\ last.op = "login" /\ last.res = "AlreadyInUse"
    /\ sessions[last.actor] = 1
    /\ pending[last.actor] = 0
    /\ \A c \in Chars \ {last.actor} : sessions[c] = 0 /\ pending[c] = 0

-----------------------------------------------------------------------------
(* Properties of the messaging scenario.                                   *)

IsMessaging(l) == l.op = "command" /\ l.line[1] \in {wTell, wYell} /\ Len(l.line) >= 3

IsBroadcast(l) == IsMessaging(l) /\ Lower(l.line[2]) = wAll

IsReply(l) == l.op = "command" /\ l.line[1] = wReply /\ Len(l.line) >= 2

\* the token names the display name n: its full name, or a prefix of its
\* first word, letter case ignored
Names(token, n) ==
    \/ Lower(Join(n)) = Lower(token)
    \/ StartsWith(Lower(FirstWord(n)), Lower(token))

\* C5: reply correctness.  When the latest tell or yell delivered to B,
\* direct or to all, came from another character A and A is online, B's
\* reply is delivered to A, once, as a direct tell from B carrying the text.
C5_ReplyCorrectness ==
    [][IsReply(last') =>
        LET b == last'.actor
            a == recent[b]
        IN (a \notin {None, b} /\ a \in presence) =>
              /\ last'.res = "sent"
              /\ Told(out'[a]) = <<EventMsg("tellsYou", b, Tail(last'.line))>>
              /\ \A x \in Chars \ {a, b} : out'[x] = <<>>]_vars

\* C5 witness: a character that got a broadcast from another one has
\* replied, and the reply reached the broadcaster while a third is online.
C5_Witness ==
    /\ IsReply(last) /\ last.res = "sent"
    /\ Cardinality(presence) = 3
    /\ \E a \in presence \ {last.actor} :
          /\ Told(out[a]) # <<>>
          /\ lastSender[a] = last.actor
          /\ \A x \in presence \ {a} : lastSender[x] = a

\* C6: messaging an absent target is private.  A tell or yell whose token
\* names no online character, and a reply whose recorded last-sender is no
\* longer online, give the sender one error, deliver nothing to anybody
\* else and change no last-sender.
C6_AbsentTargetPrivate ==
    [][(\/ /\ IsMessaging(last')
           /\ Lower(last'.line[2]) # wAll
           /\ \A x \in presence : ~Names(last'.line[2], DisplayName[x])
        \/ /\ IsReply(last')
           /\ lastSender[last'.actor] \notin presence \cup {None})
       => /\ Len(out'[last'.actor]) = 1
          /\ out'[last'.actor][1].type = "error"
          /\ \A x \in Chars \ {last'.actor} : out'[x] = <<>>
          /\ lastSender' = lastSender]_vars

\* C6 witness: a reply to a sender that has disconnected since, refused,
\* while a third character is online.
C6_Witness ==
    /\ IsReply(last) /\ last.res = "NotFound"
    /\ lastSender[last.actor] \notin presence \cup {None}
    /\ Cardinality(presence) = 2

\* C9: broadcast.  After /tell all or /yell all by A every other character
\* online at that time has received the broadcast exactly once (the text in
\* capitals when yelled) and has A as its last-sender; characters that are
\* not online receive nothing.
C9_Broadcast ==
    [][IsBroadcast(last') =>
        LET a == last'.actor
            shout == last'.line[1] = wYell
            text == Tail(Tail(last'.line))
            m == EventMsg(IF shout THEN "yellsAtEveryone" ELSE "tellsEveryone", a,
                          IF shout THEN UpperText(text) ELSE text)
        IN /\ \A x \in presence \ {a} : out'[x] = <<m>> /\ lastSender'[x] = a
           /\ \A x \in Chars \ presence : out'[x] = <<>>]_vars

\* C9 witness: a yell to all with two other characters online, both of
\* which received the text in capitals.
C9_Witness ==
    /\ IsBroadcast(last) /\ last.line[1] = wYell
    /\ Cardinality(presence) = 3
    /\ \A x \in presence \ {last.actor} :
          /\ Len(out[x]) = 1
          /\ out[x][1].text = << <<"H","I">> >>
          /\ lastSender[x] = last.actor

ErrorKinds ==
    {"UsageError", "UnknownCommand", "NotFound", "Ambiguous", "AlreadyInUse",
     "NoSuchExit", "NoPriorSender"}

IsError(m) == m.type = "error"

\* C16: errors are local and free of side effects.  A command that ends in
\* an error gives its actor one error message of that kind and nobody else
\* anything, a refused login delivers nothing to any character, and either
\* leaves locations, occupants, room coins, inventories, last-senders,
\* registry and presence as they were.  A move in a direction without an
\* exit is such an error, and every character is always in a room of the
\* world.
C16_ErrorsLocal ==
    /\ [][last'.res \in ErrorKinds =>
            /\ UNCHANGED world
            /\ IF last'.op = "command"
               THEN /\ Len(out'[last'.actor]) = 1
                    /\ IsError(out'[last'.actor][1])
                    /\ out'[last'.actor][1].error = last'.res
                    /\ \A x \in Chars \ {last'.actor} : out'[x] = <<>>
               ELSE out' = NoOut]_vars
    /\ [][\A c \in Chars : \A i \in 1..Len(out'[c]) :
            IsError(out'[c][i]) => last'.res \in ErrorKinds /\ last'.actor = c]_vars
    /\ [][(last'.op = "command" /\ DirectionOf(last'.line[1]) # None
            /\ DirectionOf(last'.line[1]) \notin DOMAIN Exits[loc[last'.actor]])
           => last'.res = "NoSuchExit" /\ loc' = loc /\ occupants' = occupants]_vars
    /\ [](\A c \in Chars : loc[c] \in Rooms)

\* C16 witness: with all three characters online and last-senders recorded,
\* a character has tried to go north, where its room has no exit, and was
\* refused.
C16_Witness ==
    /\ last.op = "command" /\ last.res = "NoSuchExit"
    /\ Cardinality(presence) = 3
    /\ \A x \in Chars : lastSender[x] # None
    /\ out[last.actor] = <<ErrorMsg("NoSuchExit", {})>>

Recognised(verb) ==
    \/ verb \in {wNorth, wSouth, wEast, wWest, <<"n">>, <<"s">>, <<"e">>, <<"w">>}
    \/ verb \in {wGo, wLook, wCollect, wDrop, wTell, wYell, wReply}
    \/ verb \in {wDance, wJump, wSmile, wBurp, wSneeze, wCough}

Named(token) == {x \in presence : Names(token, DisplayName[x])}

\* C18: direct messages are private.  A tell or yell whose target token
\* names exactly one online character is delivered to that character only
\* and sets the last-sender of that character only, whatever rooms the
\* characters are in: the sender gets the confirmation, every other
\* character gets nothing and keeps its last-sender.
C18_DirectPrivate ==
    [][(IsMessaging(last') /\ Lower(last'.line[2]) # wAll
        /\ Cardinality(Named(last'.line[2])) = 1) =>
          LET a == last'.actor
              t == CHOOSE x \in Named(last'.line[2]) : TRUE
              shout == last'.line[1] = wYell
              text == Tail(Tail(last'.line))
              m == EventMsg(IF shout THEN "yellsAtYou" ELSE "tellsYou", a,
                            IF shout THEN UpperText(text) ELSE text)
          IN /\ last'.res = "sent"
             /\ Told(out'[t]) = <<m>>
             /\ \A x \in Chars \ {t} : Told(out'[x]) = <<>>
             /\ \A x \in Chars \ {t, a} : out'[x] = <<>>
             /\ lastSender'[t] = a
             /\ \A x \in Chars \ {t} : lastSender'[x] = lastSender[x]]_vars

\* C18 witness: a character has told a character in another room, while the
\* third character, online in the room of the sender, received nothing and
\* keeps another last-sender.
C18_Witness ==
    /\ IsMessaging(last) /\ last.res = "sent"
    /\ Cardinality(presence) = 3
    /\ \E t \in presence \ {last.actor} :
          /\ loc[t] # loc[last.actor]
          /\ Told(out[t]) # <<>>
          /\ lastSender[t] = last.actor
          /\ \E x \in presence \ {t, last.actor} :
                /\ loc[x] = loc[last.actor]
                /\ out[x] = <<>>
                /\ lastSender[x] = t

\* C15: reply without a prior sender.  A reply by a character to which no
\* tell or yell has been delivered in its current session, one that got
\* messages in an earlier session and logged in again included, fails
\* NoPriorSender: the character gets that one error, nobody else gets
\* anything, and no last-sender and nothing else of the world changes.
C15_ReplyNoPriorSender ==
    [][(IsReply(last') /\ recent[last'.actor] \in {None, Stale}) =>
          /\ last'.res = "NoPriorSender"
          /\ out' = [NoOut EXCEPT ![last'.actor] = <<ErrorMsg("NoPriorSender", {})>>]
          /\ lastSender' = lastSender
          /\ UNCHANGED world]_vars

\* C15 witness: a character that was messaged in an earlier session has
\* logged in again and replied, and was refused, while both other
\* characters are online and one of them has it as last-sender.
C15_Witness ==
    /\ IsReply(last) /\ last.res = "NoPriorSender"
    /\ recent[last.actor] = Stale
    /\ Cardinality(presence) = 3
    /\ \E x \in presence \ {last.actor} : lastSender[x] = last.actor

-----------------------------------------------------------------------------
(* Properties of the mixed scenario.                                       *)

MovesCoins(l) == l.op = "command" /\ l.line[1] \in {wCollect, wDrop}

\* C22: room coins change only through collect and drop.  Every step that
\* is not a collect or a drop, that is a move, a look, an emote, a tell, a
\* yell, a reply, a login with its checkout and register, a disconnect with
\* its unregister, the start or the end of a snapshot save, leaves the coin
\* count of every room unchanged; and every command other than collect and
\* drop leaves every inventory unchanged as well.
C22_CoinFrame ==
    /\ [][~MovesCoins(last') => \A r \in Rooms : coins'[r] = coins[r]]_vars
    /\ [][(last'.op = "command" /\ ~MovesCoins(last')) =>
            \A c \in Chars : inv'[c] = inv[c]]_vars
    /\ [][last'.op = "save" => UNCHANGED world]_vars

\* C22 witness: a character that carried coins to another room has replied
\* to a message there while a save is in progress, coins lying in the room.
C22_Witness ==
    /\ IsReply(last) /\ last.res = "sent"
    /\ inv[last.actor] > 0
    /\ loc[last.actor] # StartRoom[last.actor]
    /\ coins[loc[last.actor]] > 0
    /\ saving

-----------------------------------------------------------------------------
(* Properties of the client scenario.                                      *)

\* a login request of the client has just been answered
Answered == InFlight' = InFlight - 1

\* C24: client session protocol.  The client creates a websocket only in
\* the step in which a login request of its own is granted and a session id
\* stored; it sends a command only while its websocket is OPEN and the text
\* is not empty; a failed login leaves it without session id and without
\* websocket, with the login error showing and one more fetch of the
\* available characters on its way; and once the socket has closed a
\* command changes nothing at the client, and nothing is sent later in its
\* place.
C24_ClientSession ==
    /\ [][client'.sockets # client.sockets =>
            /\ Answered /\ last'.op = "login" /\ last'.res = "ok"
            /\ client'.sessionId = last'.actor
            /\ client'.ws = "CONNECTING"
            /\ client'.sockets = client.sockets + 1]_vars
    /\ [](client.ws # "null" => client.sessionId # None)
    /\ [][client'.sent # client.sent =>
            /\ last'.op = "send" /\ last'.res = "sent" /\ last'.line # <<>>
            /\ client.ws = "OPEN"
            /\ client'.sent = client.sent + 1]_vars
    /\ [][(Answered /\ last'.res # "ok") =>
            /\ client'.sessionId = None
            /\ client'.ws = "null"
            /\ client'.error = "login"
            /\ client'.fetches = client.fetches + 1]_vars
    /\ [][(last'.op \in {"send", "enter", "button"} /\ client.ws # "OPEN") =>
            client' = client]_vars

-----------------------------------------------------------------------------
(* Properties of name resolution.                                          *)

SameFullName(token, n) == Lower(Join(n)) = Lower(token)

FirstWordPrefix(token, n) == StartsWith(Lower(FirstWord(n)), Lower(token))

Resolved == rresult # NoResolve

\* C7: name resolution.  For a token other than the reserved word all: the
\* online character whose full name is the token, letter case ignored, if
\* there is one; otherwise by prefix match of the token against the first
\* word of every online name: NotFound for no match, the character for one
\* match, Ambiguous with all the candidates for several.  With Bob the
\* Brave and Boris the Bold online, bo is Ambiguous, bob is Bob and boris is
\* Boris.
C7_NameResolution ==
    (Resolved /\ Lower(rtoken) # wAll) =>
        LET full == {n \in rnames : SameFullName(rtoken, n)}
            cand == {n \in rnames : FirstWordPrefix(rtoken, n)}
        IN /\ full # {} => rresult.kind = "hit" /\ rresult.name \in full
           /\ (full = {} /\ cand = {}) => rresult.kind = "NotFound"
           /\ (full = {} /\ Cardinality(cand) = 1) =>
                 rresult.kind = "hit" /\ rresult.name \in cand
           /\ (full = {} /\ Cardinality(cand) > 1) =>
                 rresult.kind = "Ambiguous" /\ rresult.candidates = cand
           /\ rnames = {nBob, nBoris} =>
                 /\ Lower(rtoken) = <<"b","o">> => rresult.kind = "Ambiguous"
                 /\ Lower(rtoken) = tBob => rresult = Hit(nBob)
                 /\ Lower(rtoken) = Lower(tBoris) => rresult = Hit(nBoris)

\* C7 witness: Bob the Brave and Boris the Bold are online and BO has been
\* resolved: Ambiguous, with both as candidates.
C7_Witness ==
    /\ Resolved
    /\ rnames = {nBob, nBoris}
    /\ rtoken = tBO
    /\ rresult.kind = "Ambiguous"
    /\ rresult.candidates = {nBob, nBoris}

\* C8: first-name addressing.  Whatever the set of online characters, the
\* first name of an online character, in any letter case, resolves to that
\* character.
C8_FirstNameAddressing ==
    Resolved =>
        \A n \in rnames : Lower(rtoken) = Lower(FirstWord(n)) => rresult = Hit(n)

====
